---- MODULE Spec2Model ----
(***************************************************************************)
(* a121-rs: the transport bridge (src/hal.rs), the radar handle, the       *)
(* presence detector (src/detector/presence.rs) with its config            *)
(* (src/detector/presence/config.rs) and the control loop of               *)
(* examples/esp32c6-hal/src/main.rs, as one state machine.  A library      *)
(* operation is one action: the engine's answers, the number of transfers  *)
(* it makes and the device's answer are its inputs.                        *)
(***************************************************************************)
EXTENDS Integers, Sequences, FiniteSets, TLC

\* ------------------------------------------------------------------ bounds
\* Buffer lengths and engine-declared sizes range over 0..MaxLen.
MaxLen == 2
\* The engine makes 0..MaxXfers transfers during one operation.
MaxXfers == 1
\* At most MaxArtifacts sensor calibration artifacts are produced.
MaxArtifacts == 2
\* At most MaxDetectors detectors are constructed, one after the other.
MaxDetectors == 2

\* ------------------------------------------------------------------ devices
\* The SpiDevice values the application owns, and the Rust type of each.
Devices == {"a1", "a2", "b1"}
SpiTypes == {"A", "B"}
SpiType(d) == IF d = "b1" THEN "B" ELSE "A"

Lens == 0..MaxLen
Sizes == 1..MaxLen

VARIABLES
    pc,             \* "client": any caller of the public API; otherwise the line of main() in examples/esp32c6-hal
    panicked,       \* the task has panicked (unwrap, assert!): nothing runs after it
    SPI_INSTANCE,   \* hal.rs:19, "uninit" or the device whose pointer the slot holds
    hals,           \* the SPI types for which an AccHalImpl value exists
    engineHal,      \* the SPI type whose transfer8_function the engine holds, or "none"
    borrowed,       \* devices whose &'static mut has been given away
    lastRegistered, \* history: the device passed to the latest AccHalImpl::new
    lastXfer,       \* history: the latest transfer, [on |-> device driven, latest |-> lastRegistered then,
                    \* cb |-> the SPI type of the callback that ran]
    radar,          \* "none", "Uninitialized", "Ready", "dropped"
    frameSize,      \* the engine-declared frame size of the sensor
    latestArt,      \* number of sensor calibration artifacts produced so far (the latest one's id)
    detector,       \* "none" or "live": the detector bound to the handle
    ctxSize,        \* the buffer size the engine declares for the detector context (0: no context)
    cfgSize,        \* the buffer size the detector's config requires as it now is (0: no config)
    contexts,       \* history: engine detector contexts [created, destroyed]
    configs,        \* history: engine configs [created, destroyed]
    awaiting,       \* the operation suspended at the ready-interrupt wait, or NotAwaiting
    phase,          \* history: "none", "Constructed", "Calibrated", "Prepared", "Measured", "Processed"
    armed,          \* history: a detector prepare has succeeded since the detector's latest measurement
    needRecal,      \* history: the latest result had calibration_needed and no recalibration followed
    calibration,    \* main.rs:80, the artifact bound to `calibration` (0: unbound)
    recal,          \* main.rs:129, the artifact bound to the inner `calibration` (0: unbound)
    bufLen,         \* main.rs:96, the length of `buffer`
    last            \* history: the latest operation, see NoOp

bridgeVars == <<SPI_INSTANCE, hals, engineHal, borrowed, lastRegistered>>
radarVars == <<radar, frameSize, latestArt>>
detVars == <<detector, ctxSize, cfgSize, contexts, configs>>
histVars == <<phase, armed, needRecal>>
mainVars == <<calibration, recal, bufLen>>

vars == <<pc, panicked, bridgeVars, lastXfer, radarVars, detVars, histVars, mainVars, awaiting,
          last>>

\* The record of one operation: its name, the buffer length it was given, its
\* result, the transfers made during it, whether the device reported an error,
\* whether the engine was handed the buffer, the artifact it was given (0:
\* none), the handle's state and the history flags when it was called, and the
\* engine calls it made (see WithCalls).
NoOp == [op |-> "none", len |-> 0, res |-> "none", xfers |-> 0, devErr |-> FALSE,
         engineBuf |-> FALSE, art |-> 0, radarAt |-> "none", phaseAt |-> "none",
         armedAt |-> FALSE, recalAt |-> FALSE, calls |-> <<>>]

OpRec(op, len, res, n, devErr, engineBuf, art) ==
    [op |-> op, len |-> len, res |-> res, xfers |-> n, devErr |-> devErr,
     engineBuf |-> engineBuf, art |-> art, radarAt |-> radar, phaseAt |-> phase,
     armedAt |-> armed, recalAt |-> needRecal, calls |-> <<>>]

\* No operation is suspended.
NotAwaiting == [op |-> "none", len |-> 0, edge |-> FALSE]

\* One call of the engine by an operation and the engine's answer to it.
EngineCall(fn, ok) == [fn |-> fn, ok |-> ok]

\* The record of an operation with the engine calls it made, for the
\* operations whose engine calls are told apart: register, Radar::new,
\* calibrate_and_prepare, process_data and the drop of a detector.
WithCalls(rec, calls) == [rec EXCEPT !.calls = calls]

\* ------------------------------------------------------------ transport bridge
\* hal.rs:93-94: the callback instantiated for SPI type t reads the slot and
\* dereferences it as *mut t.  With a device of type t in the slot that is the
\* device; with a device of another type the dereference is undefined.
transfer8_targets(t) ==
    IF SPI_INSTANCE # "uninit" /\ SpiType(SPI_INSTANCE) = t
    THEN {SPI_INSTANCE}
    ELSE Devices \cup {"undefined"}

NoXfer == [on |-> "none", latest |-> "none", cb |-> "none"]

\* hal.rs:86-95: n calls of the callback by the engine during one operation;
\* devOk is the device's answer to transfer_in_place.
transfer8_function(n, devOk) ==
    IF n = 0
    THEN lastXfer' = lastXfer
    ELSE /\ engineHal # "none"
         /\ \E on \in transfer8_targets(engineHal) :
                lastXfer' = [on |-> on, latest |-> lastRegistered, cb |-> engineHal]

\* hal.rs:94: unwrap() on the device's answer, inside the extern "C" callback.
TransferPanics(n, devOk) == n > 0 /\ ~devOk

\* hal.rs:41-58
AccHalImpl_new(d) ==
    /\ d \notin borrowed
    /\ SPI_INSTANCE' = d
    /\ hals' = hals \cup {SpiType(d)}
    /\ borrowed' = borrowed \cup {d}
    /\ lastRegistered' = d
    /\ last' = OpRec("new", 0, "Ok", 0, FALSE, FALSE, 0)
    /\ UNCHANGED <<engineHal, lastXfer, radarVars, detVars, histVars>>

\* The callback handed to the engine with no AccHalImpl value behind it, as a
\* register that were an associated function without &self would allow.
Mut_register_without_value(t, result) ==
    /\ engineHal' = IF result THEN t ELSE engineHal
    /\ last' = WithCalls(OpRec("register", 0, IF result THEN "Ok" ELSE "Panic", 0, FALSE,
                               FALSE, 0),
                         <<EngineCall("acc_rss_hal_register", result)>>)
    /\ UNCHANGED <<SPI_INSTANCE, hals, borrowed, lastRegistered, lastXfer, radarVars,
                   detVars, histVars>>

\* register leaving the slot unwritten again.
Mut_register_resets_slot(t, result) ==
    /\ t \in hals
    /\ engineHal' = IF result THEN t ELSE engineHal
    /\ SPI_INSTANCE' = "uninit"
    /\ last' = WithCalls(OpRec("register", 0, IF result THEN "Ok" ELSE "Panic", 0, FALSE,
                               FALSE, 0),
                         <<EngineCall("acc_rss_hal_register", result)>>)
    /\ UNCHANGED <<hals, borrowed, lastRegistered, lastXfer, radarVars, detVars, histVars>>

\* register without the assert! of hal.rs:110: it returns whatever the engine
\* answered.
Mut_register_without_assert(t, result) ==
    /\ t \in hals
    /\ engineHal' = IF result THEN t ELSE engineHal
    /\ last' = WithCalls(OpRec("register", 0, "Ok", 0, FALSE, FALSE, 0),
                         <<EngineCall("acc_rss_hal_register", result)>>)
    /\ UNCHANGED <<SPI_INSTANCE, hals, borrowed, lastRegistered, lastXfer, radarVars,
                   detVars, histVars>>

\* hal.rs:106-111: result is the engine's answer to acc_rss_hal_register.
register(t, result) ==
    /\ t \in hals
    /\ engineHal' = IF result THEN t ELSE engineHal
    /\ last' = WithCalls(OpRec("register", 0, IF result THEN "Ok" ELSE "Panic", 0, FALSE,
                               FALSE, 0),
                         <<EngineCall("acc_rss_hal_register", result)>>)
    /\ UNCHANGED <<SPI_INSTANCE, hals, borrowed, lastRegistered, lastXfer, radarVars,
                   detVars, histVars>>

\* ------------------------------------------------------------- radar handle
\* Radar::new (called at main.rs:76 with the SPI device): builds the AccHalImpl
\* for the device and registers it, and returns an Uninitialized handle.
Radar_new(d, result) ==
    /\ radar \in {"none", "dropped"}
    /\ d \notin borrowed
    /\ SPI_INSTANCE' = d
    /\ hals' = hals \cup {SpiType(d)}
    /\ borrowed' = borrowed \cup {d}
    /\ lastRegistered' = d
    /\ engineHal' = IF result THEN SpiType(d) ELSE engineHal
    /\ radar' = IF result THEN "Uninitialized" ELSE radar
    /\ last' = WithCalls(OpRec("Radar_new", 0, IF result THEN "Ok" ELSE "Panic", 0, FALSE,
                               FALSE, 0),
                         <<EngineCall("acc_rss_hal_register", result)>>)
    /\ UNCHANGED <<lastXfer, frameSize, latestArt, detVars, histVars>>

\* Radar::calibrate (called at presence.rs:101 on a Ready handle and at
\* main.rs:80 on a new one): the engine's calibration with its transfers;
\* ok is the engine's answer (a timeout of the interrupt wait included).
CalibrateResult(n, devOk, ok) ==
    IF TransferPanics(n, devOk) THEN "Panic"
    ELSE IF ok THEN "Ok" ELSE "CalibrationFailed"

Radar_calibrate(n, devOk, ok) ==
    /\ radar \in {"Uninitialized", "Ready"}
    /\ latestArt < MaxArtifacts
    /\ transfer8_function(n, devOk)
    /\ latestArt' = IF CalibrateResult(n, devOk, ok) = "Ok" THEN latestArt + 1 ELSE latestArt
    /\ last' = OpRec("calibrate", 0, CalibrateResult(n, devOk, ok), n,
                     TransferPanics(n, devOk), FALSE, 0)
    /\ UNCHANGED <<bridgeVars, radar, frameSize, detVars, histVars>>

\* Radar::prepare_sensor (called at main.rs:81): takes the Uninitialized handle
\* by value and returns Result<Radar<Ready>, _>; a failure returns the error
\* alone, the handle is gone.
PrepareSensorResult(n, devOk, ok) ==
    IF TransferPanics(n, devOk) THEN "Panic"
    ELSE IF ok THEN "Ok" ELSE "PrepareFailed"

Radar_prepare_sensor(a, n, devOk, ok) ==
    /\ radar = "Uninitialized"
    /\ a \in 1..latestArt
    /\ transfer8_function(n, devOk)
    /\ radar' = IF PrepareSensorResult(n, devOk, ok) = "Ok" THEN "Ready" ELSE "dropped"
    /\ last' = OpRec("prepare_sensor", 0, PrepareSensorResult(n, devOk, ok), n,
                     TransferPanics(n, devOk), FALSE, a)
    /\ UNCHANGED <<bridgeVars, frameSize, latestArt, detVars, histVars>>

\* Radar::measure (Ready only; called at presence.rs:132): BufferTooSmall below
\* the engine-declared frame size, before the engine is involved; otherwise the
\* frame is measured and read into the buffer.
MeasureResult(len, n, devOk, ok) ==
    IF len < frameSize THEN "BufferTooSmall"
    ELSE IF TransferPanics(n, devOk) THEN "Panic"
    ELSE IF ok THEN "Ok" ELSE "SensorError"

\* The measurement itself, recorded under the name op.
RadarMeasure(op, len, n, devOk, ok) ==
    IF len < frameSize
    THEN /\ lastXfer' = lastXfer
         /\ last' = OpRec(op, len, "BufferTooSmall", 0, FALSE, FALSE, 0)
    ELSE /\ transfer8_function(n, devOk)
         /\ last' = OpRec(op, len, MeasureResult(len, n, devOk, ok), n,
                          TransferPanics(n, devOk), TRUE, 0)

Radar_measure(len, n, devOk, ok) ==
    /\ radar = "Ready"
    /\ RadarMeasure("measure", len, n, devOk, ok)
    /\ UNCHANGED <<bridgeVars, radarVars, detVars, histVars>>

\* -------------------------------------------------------- presence detector
\* The handle as a detector would leave it with a shared reference (&'radar
\* Radar) at presence.rs:55: free for every caller.
Mut_shared_handle == TRUE

\* presence.rs:55: a detector holds the &mut of its handle for as long as it
\* lives, so the handle is free for a caller only while no detector lives.
HandleFree == detector = "none"

NoObjects == [created |-> 0, destroyed |-> 0]
Created(objs) == [objs EXCEPT !.created = @ + 1]
Destroyed(objs) == [objs EXCEPT !.destroyed = @ + 1]
Live(objs) == objs.created - objs.destroyed

\* presence.rs:20-28 and config.rs:31-37: the engine creates the context from
\* the config, which the engine created before it; c is the buffer size the
\* config requires, and the size the engine declares for the context.
Construct(c) ==
    /\ contexts.created < MaxDetectors
    /\ detector' = "live"
    /\ ctxSize' = c
    /\ cfgSize' = c
    /\ contexts' = Created(contexts)
    /\ configs' = Created(configs)

\* with_config taking a handle in any state, as it would with a type
\* parameter in place of Ready at presence.rs:79.
Mut_with_config_any_state(c) ==
    /\ radar \in {"Uninitialized", "Ready"}
    /\ HandleFree
    /\ Construct(c)
    /\ phase' = "Constructed"
    /\ armed' = FALSE
    /\ needRecal' = FALSE
    /\ last' = OpRec("with_config", 0, "Ok", 0, FALSE, FALSE, 0)
    /\ UNCHANGED <<bridgeVars, lastXfer, radarVars>>

\* presence.rs:78-88 (and 20-28): c is the buffer size the engine declares for
\* the context it creates from the config.  The handle is a Radar<Ready>.
PresenceDetector_with_config(c) ==
    /\ radar = "Ready"
    /\ HandleFree
    /\ Construct(c)
    /\ phase' = "Constructed"
    /\ armed' = FALSE
    /\ needRecal' = FALSE
    /\ last' = OpRec("with_config", 0, "Ok", 0, FALSE, FALSE, 0)
    /\ UNCHANGED <<bridgeVars, lastXfer, radarVars>>

\* presence.rs:67-75: the detector with the default config, which requires c.
PresenceDetector_new(c) ==
    /\ radar = "Ready"
    /\ HandleFree
    /\ Construct(c)
    /\ phase' = "Constructed"
    /\ armed' = FALSE
    /\ needRecal' = FALSE
    /\ last' = OpRec("det_new", 0, "Ok", 0, FALSE, FALSE, 0)
    /\ UNCHANGED <<bridgeVars, lastXfer, radarVars>>

\* presence.rs:120-126: the engine's answer for the context (self.inner), as
\* it declared it when it created the context.
get_buffer_size == ctxSize

\* get_buffer_size as a query that has the engine build the context anew.
Mut_get_buffer_size_recreates_context ==
    /\ detector = "live"
    /\ contexts' = Created(Destroyed(contexts))
    /\ ctxSize' = cfgSize
    /\ last' = OpRec("get_buffer_size", cfgSize, "Ok", 0, FALSE, FALSE, 0)
    /\ UNCHANGED <<bridgeVars, lastXfer, radarVars, detector, cfgSize, configs, histVars>>

\* presence.rs:120-126 as an operation of the caller: the record's len is the
\* value returned.
PresenceDetector_get_buffer_size ==
    /\ detector = "live"
    /\ last' = OpRec("get_buffer_size", get_buffer_size, "Ok", 0, FALSE, FALSE, 0)
    /\ UNCHANGED <<bridgeVars, lastXfer, radarVars, detVars, histVars>>

\* config.rs:46-51 on the config of a detector (presence.rs:57, a pub field):
\* the engine's config object now requires c; the context is the engine's
\* object of presence.rs:24 and is not touched.
PresenceConfig_set_range(c) ==
    /\ detector = "live"
    /\ cfgSize' = c
    /\ last' = OpRec("set_range", 0, "Ok", 0, FALSE, FALSE, 0)
    /\ UNCHANGED <<bridgeVars, lastXfer, radarVars, detector, ctxSize, contexts, configs,
                   histVars>>

\* A drop that leaves the context to the engine (presence.rs:43-47 absent).
Mut_drop_leaks_context ==
    /\ detector = "live"
    /\ detector' = "none"
    /\ ctxSize' = 0
    /\ cfgSize' = 0
    /\ contexts' = contexts
    /\ configs' = Destroyed(configs)
    /\ phase' = "none"
    /\ armed' = FALSE
    /\ needRecal' = FALSE
    /\ last' = WithCalls(OpRec("drop", 0, "Ok", 0, FALSE, FALSE, 0),
                         <<EngineCall("acc_detector_presence_config_destroy", TRUE)>>)
    /\ UNCHANGED <<bridgeVars, lastXfer, radarVars>>

\* A drop of the fields in the order config, inner, as with the two fields
\* declared the other way round at presence.rs:56-57.
Mut_drop_config_first ==
    /\ detector = "live"
    /\ detector' = "none"
    /\ ctxSize' = 0
    /\ cfgSize' = 0
    /\ contexts' = Destroyed(contexts)
    /\ configs' = Destroyed(configs)
    /\ phase' = "none"
    /\ armed' = FALSE
    /\ needRecal' = FALSE
    /\ last' = WithCalls(OpRec("drop", 0, "Ok", 0, FALSE, FALSE, 0),
                         <<EngineCall("acc_detector_presence_config_destroy", TRUE),
                           EngineCall("acc_detector_presence_destroy", TRUE)>>)
    /\ UNCHANGED <<bridgeVars, lastXfer, radarVars>>

\* The end of a detector's lifetime: its fields are dropped in the order of
\* presence.rs:55-57, the context (presence.rs:43-47) before the config
\* (config.rs:25-29); the handle is free again.
PresenceDetector_drop ==
    /\ detector = "live"
    /\ detector' = "none"
    /\ ctxSize' = 0
    /\ cfgSize' = 0
    /\ contexts' = Destroyed(contexts)
    /\ configs' = Destroyed(configs)
    /\ phase' = "none"
    /\ armed' = FALSE
    /\ needRecal' = FALSE
    /\ last' = WithCalls(OpRec("drop", 0, "Ok", 0, FALSE, FALSE, 0),
                         <<EngineCall("acc_detector_presence_destroy", TRUE),
                           EngineCall("acc_detector_presence_config_destroy", TRUE)>>)
    /\ UNCHANGED <<bridgeVars, lastXfer, radarVars>>

\* calibrate_and_prepare without the `?` of presence.rs:101: the engine's
\* prepare decides the result whatever the calibration returned.
Mut_calibrate_and_prepare_no_question_mark(len, n, devOk, calOk, prepOk) ==
    IF len < get_buffer_size THEN "BufferTooSmall"
    ELSE IF prepOk THEN "Ok" ELSE "PrepareFailed"

\* presence.rs:95-118
CalibrateAndPrepareResult(len, n, devOk, calOk, prepOk) ==
    IF len < get_buffer_size THEN "BufferTooSmall"
    ELSE IF CalibrateResult(n, devOk, calOk) # "Ok" THEN CalibrateResult(n, devOk, calOk)
    ELSE IF prepOk THEN "Ok" ELSE "PrepareFailed"

\* presence.rs:96-111: the calls calibrate_and_prepare makes, in order, and
\* their answers: none below the length check, Radar::calibrate, and the
\* engine's prepare after a calibration that succeeded.
CalibrateAndPrepareCalls(len, n, devOk, calOk, prepOk) ==
    IF len < get_buffer_size THEN <<>>
    ELSE IF CalibrateResult(n, devOk, calOk) # "Ok"
         THEN <<EngineCall("calibrate", FALSE)>>
         ELSE <<EngineCall("calibrate", TRUE),
                EngineCall("acc_detector_presence_prepare", prepOk)>>

PresenceDetector_calibrate_and_prepare(len, n, devOk, calOk, prepOk) ==
    LET res == CalibrateAndPrepareResult(len, n, devOk, calOk, prepOk)
        calls == CalibrateAndPrepareCalls(len, n, devOk, calOk, prepOk)
        calibrated == len >= get_buffer_size /\ CalibrateResult(n, devOk, calOk) = "Ok"
    IN
    /\ detector = "live"
    /\ IF len < get_buffer_size
       THEN /\ lastXfer' = lastXfer
            /\ latestArt' = latestArt
            /\ last' = WithCalls(OpRec("calibrate_and_prepare", len, res, 0, FALSE, FALSE, 0),
                                 calls)
       ELSE /\ latestArt < MaxArtifacts
            /\ transfer8_function(n, devOk)
            /\ latestArt' = IF calibrated THEN latestArt + 1 ELSE latestArt
            /\ last' = WithCalls(OpRec("calibrate_and_prepare", len, res, n,
                                       TransferPanics(n, devOk), calibrated,
                                       IF calibrated THEN latestArt + 1 ELSE 0),
                                 calls)
    /\ phase' = IF res = "Ok" THEN "Prepared" ELSE phase
    /\ armed' = IF res = "Ok" THEN TRUE ELSE armed
    /\ needRecal' = IF res = "Ok" THEN FALSE ELSE needRecal
    /\ UNCHANGED <<bridgeVars, radar, frameSize, detVars>>

\* measure with a length check of its own against get_buffer_size() before
\* it turns to the handle.
Mut_measure_checks_buffer_size(len, n, devOk, ok) ==
    /\ detector = "live"
    /\ IF len < get_buffer_size
       THEN /\ lastXfer' = lastXfer
            /\ last' = OpRec("det_measure", len, "BufferTooSmall", 0, FALSE, FALSE, 0)
            /\ phase' = phase
            /\ armed' = armed
       ELSE /\ RadarMeasure("det_measure", len, n, devOk, ok)
            /\ phase' = IF MeasureResult(len, n, devOk, ok) = "Ok" THEN "Measured" ELSE phase
            /\ armed' = IF len < frameSize THEN armed ELSE FALSE
    /\ UNCHANGED <<bridgeVars, radarVars, detVars, needRecal>>

\* presence.rs:131-133
PresenceDetector_measure(len, n, devOk, ok) ==
    /\ detector = "live"
    /\ RadarMeasure("det_measure", len, n, devOk, ok)
    /\ phase' = IF MeasureResult(len, n, devOk, ok) = "Ok" THEN "Measured" ELSE phase
    /\ armed' = IF len < frameSize THEN armed ELSE FALSE
    /\ UNCHANGED <<bridgeVars, radarVars, detVars, needRecal>>

\* process_data with a check of its own: an error while a result with
\* calibration_needed has not been followed by a recalibration.
Mut_process_data_rejects_uncalibrated(len, ok, calNeeded) ==
    /\ detector = "live"
    /\ last' = OpRec("process_data", len,
                     IF needRecal THEN "CalibrationNeeded"
                     ELSE IF ok THEN "Ok" ELSE "ProcessingFailed",
                     0, FALSE, ~needRecal, 0)
    /\ phase' = "Processed"
    /\ needRecal' = IF ok /\ ~needRecal THEN calNeeded ELSE needRecal
    /\ UNCHANGED <<bridgeVars, lastXfer, radarVars, detVars, armed>>

\* process_data with a result whose calibration_needed flag is always set.
Mut_process_data_always_needs_calibration(len, ok, calNeeded) ==
    /\ detector = "live"
    /\ last' = OpRec("process_data", len, IF ok THEN "Ok" ELSE "ProcessingFailed", 0,
                     FALSE, TRUE, 0)
    /\ phase' = "Processed"
    /\ needRecal' = TRUE
    /\ UNCHANGED <<bridgeVars, lastXfer, radarVars, detVars, armed>>

\* process_data with a second call of the engine after a first that failed;
\* the second call succeeds.
Mut_process_data_retries(len, ok, calNeeded) ==
    /\ detector = "live"
    /\ last' = WithCalls(OpRec("process_data", len, "Ok", 0, FALSE, TRUE, 0),
                         IF ok
                         THEN <<EngineCall("acc_detector_presence_process", TRUE)>>
                         ELSE <<EngineCall("acc_detector_presence_process", FALSE),
                                EngineCall("acc_detector_presence_process", TRUE)>>)
    /\ phase' = "Processed"
    /\ needRecal' = calNeeded
    /\ UNCHANGED <<bridgeVars, lastXfer, radarVars, detVars, armed>>

\* presence.rs:135-156: ok and calNeeded are the engine's answer and the
\* calibration_needed flag of the result record it fills.
PresenceDetector_process_data(len, ok, calNeeded) ==
    /\ detector = "live"
    /\ last' = WithCalls(OpRec("process_data", len, IF ok THEN "Ok" ELSE "ProcessingFailed",
                               0, FALSE, TRUE, 0),
                         <<EngineCall("acc_detector_presence_process", ok)>>)
    /\ phase' = "Processed"
    /\ needRecal' = IF ok THEN calNeeded ELSE needRecal
    /\ UNCHANGED <<bridgeVars, lastXfer, radarVars, detVars, armed>>

\* -------------------------------------------------------- distance detector
\* RadarDistanceDetector, as main.rs:95-133 uses it.
Distance_with_config(c) ==
    /\ radar = "Ready"
    /\ HandleFree
    /\ Construct(c)
    /\ phase' = "Constructed"
    /\ armed' = FALSE
    /\ needRecal' = FALSE
    /\ last' = OpRec("with_config", 0, "Ok", 0, FALSE, FALSE, 0)
    /\ UNCHANGED <<bridgeVars, lastXfer, radarVars>>

get_distance_buffer_size == ctxSize

DetectorCalibrationResult(len, n, devOk, ok) ==
    IF len < get_distance_buffer_size THEN "BufferTooSmall"
    ELSE IF TransferPanics(n, devOk) THEN "Panic"
    ELSE IF ok THEN "Ok" ELSE "CalibrationFailed"

\* calibrate_detector and update_calibration: the detector's calibration with
\* the sensor calibration artifact a, recorded under the name op.
DetectorCalibration(op, a, len, n, devOk, ok) ==
    LET res == DetectorCalibrationResult(len, n, devOk, ok) IN
    /\ detector = "live"
    /\ IF len < get_distance_buffer_size
       THEN /\ lastXfer' = lastXfer
            /\ last' = OpRec(op, len, res, 0, FALSE, FALSE, a)
       ELSE /\ transfer8_function(n, devOk)
            /\ last' = OpRec(op, len, res, n, TransferPanics(n, devOk), TRUE, a)
    /\ phase' = IF res = "Ok" THEN "Calibrated" ELSE phase
    /\ needRecal' = IF res = "Ok" THEN FALSE ELSE needRecal
    /\ UNCHANGED <<bridgeVars, radarVars, detVars, armed>>

Distance_calibrate_detector(a, len, n, devOk, ok) ==
    DetectorCalibration("calibrate_detector", a, len, n, devOk, ok)

Distance_update_calibration(a, len, n, devOk, ok) ==
    DetectorCalibration("update_calibration", a, len, n, devOk, ok)

PrepareDetectorResult(n, devOk, ok) ==
    IF TransferPanics(n, devOk) THEN "Panic"
    ELSE IF ok THEN "Ok" ELSE "PrepareFailed"

Distance_prepare_detector(a, len, n, devOk, ok) ==
    LET res == PrepareDetectorResult(n, devOk, ok) IN
    /\ detector = "live"
    /\ transfer8_function(n, devOk)
    /\ last' = OpRec("prepare_detector", len, res, n, TransferPanics(n, devOk), TRUE, a)
    /\ phase' = IF res = "Ok" THEN "Prepared" ELSE phase
    /\ armed' = IF res = "Ok" THEN TRUE ELSE armed
    /\ UNCHANGED <<bridgeVars, radarVars, detVars, needRecal>>

Distance_measure(len, n, devOk, ok) ==
    /\ detector = "live"
    /\ RadarMeasure("det_measure", len, n, devOk, ok)
    /\ phase' = IF MeasureResult(len, n, devOk, ok) = "Ok" THEN "Measured" ELSE phase
    /\ armed' = IF len < frameSize THEN armed ELSE FALSE
    /\ UNCHANGED <<bridgeVars, radarVars, detVars, needRecal>>

Distance_process_data(len, ok, calNeeded) ==
    /\ detector = "live"
    /\ last' = OpRec("process_data", len, IF ok THEN "Ok" ELSE "ProcessingFailed", 0,
                     FALSE, TRUE, 0)
    /\ phase' = "Processed"
    /\ needRecal' = IF ok THEN calNeeded ELSE needRecal
    /\ UNCHANGED <<bridgeVars, lastXfer, radarVars, detVars, armed>>

\* distance.calibrate() (main.rs:129): the sensor calibration of the
\* detector's handle.
Distance_calibrate(n, devOk, ok) ==
    /\ detector = "live"
    /\ Radar_calibrate(n, devOk, ok)

\* ------------------------------------------------------------------ callers
\* Any caller of the public API: an error value comes back to it and it goes
\* on; a panic ends the task.
Client(op) ==
    /\ pc = "client"
    /\ ~panicked
    /\ awaiting = NotAwaiting
    /\ op
    /\ pc' = pc
    /\ panicked' = (last'.res = "Panic")
    /\ UNCHANGED <<mainVars, awaiting>>

\* What the engine and the device do during one operation: the number of
\* transfers, the device's answer to them and the engine's answer.
Inputs ==
    {i \in [n : 0..MaxXfers, devOk : BOOLEAN, ok : BOOLEAN] :
        /\ i.n = 0 => i.devOk
        /\ ~i.devOk => i.ok}

ClientNew == \E d \in Devices : Client(AccHalImpl_new(d))

ClientRegister == \E t \in SpiTypes, result \in BOOLEAN : Client(register(t, result))

ClientRadarNew == \E d \in Devices, result \in BOOLEAN : Client(Radar_new(d, result))

\* The application's devices are of one type and it hands them out in order.
AppDevices == {d \in Devices \ borrowed : SpiType(d) = "A"}
AppDevice == CHOOSE d \in AppDevices : TRUE

AppRadarNew ==
    /\ AppDevices # {}
    /\ \E result \in BOOLEAN : Client(Radar_new(AppDevice, result))

ClientCalibrate ==
    /\ HandleFree
    /\ \E i \in Inputs : Client(Radar_calibrate(i.n, i.devOk, i.ok))

ClientPrepareSensor ==
    \E a \in 1..MaxArtifacts, i \in Inputs :
        Client(Radar_prepare_sensor(a, i.n, i.devOk, i.ok))

ClientRadarMeasure ==
    /\ HandleFree
    /\ \E len \in Lens, i \in Inputs : Client(Radar_measure(len, i.n, i.devOk, i.ok))

ClientWithConfig == \E c \in Sizes : Client(PresenceDetector_with_config(c))

ClientDetectorNew == \E c \in Sizes : Client(PresenceDetector_new(c))

ClientGetBufferSize == Client(PresenceDetector_get_buffer_size)

ClientSetRange == \E c \in Sizes : Client(PresenceConfig_set_range(c))

ClientDrop == Client(PresenceDetector_drop)

ClientCalibrateAndPrepare ==
    \E len \in Lens, i \in Inputs, prepOk \in BOOLEAN :
        Client(PresenceDetector_calibrate_and_prepare(len, i.n, i.devOk, i.ok, prepOk))

ClientMeasure ==
    \E len \in Lens, i \in Inputs : Client(PresenceDetector_measure(len, i.n, i.devOk, i.ok))

ClientProcessData ==
    \E len \in Lens, ok \in BOOLEAN, calNeeded \in BOOLEAN :
        Client(PresenceDetector_process_data(len, ok, calNeeded))

\* main() of examples/esp32c6-hal: .unwrap() on the result of op, then on to
\* line `to`.
Unwrap(from, to, op) ==
    /\ pc = from
    /\ ~panicked
    /\ op
    /\ panicked' = (last'.res # "Ok")
    /\ pc' = IF last'.res = "Ok" THEN to ELSE from
    /\ awaiting' = awaiting

\* main.rs:76
Main_L76 ==
    /\ AppDevices # {}
    /\ \E result \in BOOLEAN : Unwrap("L76", "L80", Radar_new(AppDevice, result))
    /\ UNCHANGED mainVars

\* main.rs:80
Main_L80 ==
    /\ \E i \in Inputs : Unwrap("L80", "L81", Radar_calibrate(i.n, i.devOk, i.ok))
    /\ calibration' = IF last'.res = "Ok" THEN latestArt' ELSE calibration
    /\ UNCHANGED <<recal, bufLen>>

\* main.rs:81
Main_L81 ==
    /\ \E i \in Inputs :
          Unwrap("L81", "L95", Radar_prepare_sensor(calibration, i.n, i.devOk, i.ok))
    /\ UNCHANGED mainVars

\* main.rs:84-95
Main_L95 ==
    /\ \E c \in Sizes : Unwrap("L95", "L96", Distance_with_config(c))
    /\ UNCHANGED mainVars

\* main.rs:96-97
Main_L96 ==
    /\ pc = "L96"
    /\ ~panicked
    /\ bufLen' = get_distance_buffer_size
    /\ pc' = "L99"
    /\ UNCHANGED <<panicked, bridgeVars, lastXfer, radarVars, detVars, histVars,
                   calibration, recal, awaiting, last>>

\* main.rs:99-102
Main_L99 ==
    /\ \E i \in Inputs :
          Unwrap("L99", "L110",
                 Distance_calibrate_detector(calibration, bufLen, i.n, i.devOk, i.ok))
    /\ UNCHANGED mainVars

\* The loop without its prepare_detector call.
Mut_L110_no_prepare ==
    /\ pc = "L110"
    /\ ~panicked
    /\ pc' = "L113"
    /\ UNCHANGED <<panicked, bridgeVars, lastXfer, radarVars, detVars, histVars, mainVars,
                   awaiting, last>>

\* main.rs:110-112
Main_L110 ==
    /\ \E i \in Inputs :
          Unwrap("L110", "L113",
                 Distance_prepare_detector(calibration, bufLen, i.n, i.devOk, i.ok))
    /\ UNCHANGED mainVars

\* The loop without its measure call.
Mut_L113_no_measure ==
    /\ pc = "L113"
    /\ ~panicked
    /\ pc' = "L115"
    /\ UNCHANGED <<panicked, bridgeVars, lastXfer, radarVars, detVars, histVars, mainVars,
                   awaiting, last>>

\* main.rs:113
Main_L113 ==
    /\ \E i \in Inputs : Unwrap("L113", "L115", Distance_measure(bufLen, i.n, i.devOk, i.ok))
    /\ UNCHANGED mainVars

\* The match without the calibration_needed branch of main.rs:127-134.
Mut_L115_no_recalibration ==
    /\ pc = "L115"
    /\ ~panicked
    /\ \E ok \in BOOLEAN, calNeeded \in BOOLEAN :
          /\ Distance_process_data(bufLen, ok, calNeeded)
          /\ pc' = "L110"
    /\ UNCHANGED <<panicked, mainVars, awaiting>>

\* main.rs:115-137 (and 139-148, the report): the match on the result.
Main_L115 ==
    /\ pc = "L115"
    /\ ~panicked
    /\ \E ok \in BOOLEAN, calNeeded \in BOOLEAN :
          /\ Distance_process_data(bufLen, ok, calNeeded)
          /\ pc' = IF ok /\ calNeeded THEN "L129" ELSE "L110"
    /\ UNCHANGED <<panicked, mainVars, awaiting>>

\* main.rs:129
Main_L129 ==
    /\ \E i \in Inputs : Unwrap("L129", "L130", Distance_calibrate(i.n, i.devOk, i.ok))
    /\ recal' = IF last'.res = "Ok" THEN latestArt' ELSE recal
    /\ UNCHANGED <<calibration, bufLen>>

\* main.rs:130-134 (and 139-148): the inner `calibration` ends with the block.
Main_L130 ==
    /\ \E i \in Inputs :
          Unwrap("L130", "L110",
                 Distance_update_calibration(recal, bufLen, i.n, i.devOk, i.ok))
    /\ recal' = IF last'.res = "Ok" THEN 0 ELSE recal
    /\ UNCHANGED <<calibration, bufLen>>

Init ==
    /\ pc \in {"client", "L76"}
    /\ panicked = FALSE
    /\ SPI_INSTANCE = "uninit"
    /\ hals = {}
    /\ engineHal = "none"
    /\ borrowed = {}
    /\ lastRegistered = "none"
    /\ lastXfer = NoXfer
    /\ radar = "none"
    /\ frameSize \in Sizes
    /\ latestArt = 0
    /\ detector = "none"
    /\ ctxSize = 0
    /\ cfgSize = 0
    /\ contexts = NoObjects
    /\ configs = NoObjects
    /\ awaiting = NotAwaiting
    /\ phase = "none"
    /\ armed = FALSE
    /\ needRecal = FALSE
    /\ calibration = 0
    /\ recal = 0
    /\ bufLen = 0
    /\ last = NoOp

\* The application: any caller of the radar handle and the presence detector
\* that sets the transport up through Radar::new, or main() of the example.
Next ==
    \/ AppRadarNew
    \/ ClientCalibrate
    \/ ClientPrepareSensor
    \/ ClientRadarMeasure
    \/ ClientWithConfig
    \/ ClientCalibrateAndPrepare
    \/ ClientMeasure
    \/ ClientProcessData
    \/ Main_L76
    \/ Main_L80
    \/ Main_L81
    \/ Main_L95
    \/ Main_L96
    \/ Main_L99
    \/ Main_L110
    \/ Main_L113
    \/ Main_L115
    \/ Main_L129
    \/ Main_L130

Spec == Init /\ [][Next]_vars

\* A caller of the presence detector over an engine that succeeds at every
\* call and never reports calibration_needed, and a device that never fails.
StubRadarNew ==
    /\ AppDevices # {}
    /\ Client(Radar_new(AppDevice, TRUE))

StubCalibrate ==
    /\ HandleFree
    /\ \E n \in 0..MaxXfers : Client(Radar_calibrate(n, TRUE, TRUE))

StubPrepareSensor ==
    \E a \in 1..MaxArtifacts, n \in 0..MaxXfers :
        Client(Radar_prepare_sensor(a, n, TRUE, TRUE))

StubCalibrateAndPrepare ==
    \E len \in Lens, n \in 0..MaxXfers :
        Client(PresenceDetector_calibrate_and_prepare(len, n, TRUE, TRUE, TRUE))

StubMeasure ==
    \E len \in Lens, n \in 0..MaxXfers : Client(PresenceDetector_measure(len, n, TRUE, TRUE))

StubProcessData == \E len \in Lens : Client(PresenceDetector_process_data(len, TRUE, FALSE))

InitStub == Init /\ pc = "client"

NextStub ==
    \/ StubRadarNew
    \/ StubCalibrate
    \/ StubPrepareSensor
    \/ ClientWithConfig
    \/ StubCalibrateAndPrepare
    \/ StubMeasure
    \/ StubProcessData

SpecStub == InitStub /\ [][NextStub]_vars

\* The transport bridge: a caller that also uses AccHalImpl directly, and the
\* engine's transfers during the operations of the radar handle.
InitBridge == Init /\ pc = "client"

NextBridge ==
    \/ ClientNew
    \/ ClientRegister
    \/ ClientRadarNew
    \/ ClientCalibrate
    \/ ClientPrepareSensor
    \/ ClientRadarMeasure

SpecBridge == InitBridge /\ [][NextBridge]_vars

\* A caller of the presence detector that also queries the buffer size, sets
\* fields of the detector's config and drops the detector.
\* The handle is set up over an engine that succeeds; the detector's
\* operations get every answer of the engine, in operations during which the
\* engine makes no transfer.
Answers == {i \in Inputs : i.n = 0}

DetectorCalibrateAndPrepare ==
    \E len \in Lens, i \in Answers, prepOk \in BOOLEAN :
        Client(PresenceDetector_calibrate_and_prepare(len, i.n, i.devOk, i.ok, prepOk))

DetectorMeasure ==
    \E len \in Lens, i \in Answers : Client(PresenceDetector_measure(len, i.n, i.devOk, i.ok))

InitDetector == Init /\ pc = "client"

NextDetector ==
    \/ StubRadarNew
    \/ StubCalibrate
    \/ StubPrepareSensor
    \/ ClientWithConfig
    \/ ClientDetectorNew
    \/ ClientGetBufferSize
    \/ ClientSetRange
    \/ ClientDrop
    \/ DetectorCalibrateAndPrepare
    \/ DetectorMeasure
    \/ ClientProcessData

SpecDetector == InitDetector /\ [][NextDetector]_vars

\* The suspension of calibrate_and_prepare (presence.rs:101) and measure
\* (presence.rs:132) in the handle's wait for the ready interrupt: the
\* operation is called, its future waits, holding the &mut of the detector,
\* and it returns at the edge or at the timeout of the wait.  edge: the edge
\* occurs within the bound of the wait.
Suspend(op, len) ==
    /\ pc = "client"
    /\ ~panicked
    /\ awaiting = NotAwaiting
    /\ \E edge \in BOOLEAN : awaiting' = [op |-> op, len |-> len, edge |-> edge]
    /\ UNCHANGED <<pc, panicked, bridgeVars, lastXfer, radarVars, detVars, histVars, mainVars,
                   last>>

\* presence.rs:95-101: below the length check the operation returns at once.
AwaitCalibrateAndPrepare ==
    \E len \in Lens :
        IF len < get_buffer_size
        THEN Client(PresenceDetector_calibrate_and_prepare(len, 0, TRUE, TRUE, TRUE))
        ELSE /\ detector = "live"
             /\ latestArt < MaxArtifacts
             /\ Suspend("calibrate_and_prepare", len)

\* presence.rs:131-133: below the frame size Radar::measure returns at once.
AwaitMeasure ==
    \E len \in Lens :
        IF len < frameSize
        THEN Client(PresenceDetector_measure(len, 0, TRUE, TRUE))
        ELSE /\ detector = "live"
             /\ Suspend("det_measure", len)

\* The suspended operation goes on to its end with the answers n, devOk, ok
\* and prepOk of the engine and the device.
Resume(n, devOk, ok, prepOk) ==
    /\ pc = "client"
    /\ ~panicked
    /\ awaiting # NotAwaiting
    /\ IF awaiting.op = "calibrate_and_prepare"
       THEN PresenceDetector_calibrate_and_prepare(awaiting.len, n, devOk, ok, prepOk)
       ELSE PresenceDetector_measure(awaiting.len, n, devOk, ok)
    /\ awaiting' = NotAwaiting
    /\ pc' = pc
    /\ panicked' = (last'.res = "Panic")
    /\ UNCHANGED mainVars

\* An edge of the ready interrupt stands for one request of the engine: a
\* transfer, or none when it signals the end of the frame.
EdgeInputs == {i \in Inputs : i.n <= 1}

\* The ready interrupt's edge ends the wait.
ReadyEdge ==
    /\ awaiting # NotAwaiting
    /\ awaiting.edge
    /\ \E i \in EdgeInputs, prepOk \in BOOLEAN : Resume(i.n, i.devOk, i.ok, prepOk)

\* A wait that nothing but the edge ends.
Mut_wait_without_timeout == FALSE

\* The wait ends at its bound without the edge: the handle's operation fails
\* (a calibration error from calibrate, a sensor error from measure).
WaitTimeout ==
    /\ awaiting # NotAwaiting
    /\ ~awaiting.edge
    /\ Resume(0, TRUE, FALSE, FALSE)

InitWait == Init /\ pc = "client"

NextWait ==
    \/ StubRadarNew
    \/ StubCalibrate
    \/ StubPrepareSensor
    \/ ClientRadarMeasure
    \/ ClientWithConfig
    \/ ClientDrop
    \/ AwaitCalibrateAndPrepare
    \/ AwaitMeasure
    \/ ReadyEdge
    \/ WaitTimeout

SpecWait == InitWait /\ [][NextWait]_vars

\* The executor runs the task again when the edge or the timeout of its wait
\* has fired.
SpecWaitFair == SpecWait /\ WF_vars(ReadyEdge) /\ WF_vars(WaitTimeout)

\* ------------------------------------------------------------------- claims
ErrorValues ==
    {"BufferTooSmall", "CalibrationFailed", "PrepareFailed", "SensorError", "ProcessingFailed"}

\* C1: every transfer is executed on the device passed to the most recent
\* AccHalImpl::new before it, and a registration leaves the record of the
\* transfers completed before it as it was.
C1_TransferOnLatestRegistration ==
    [][/\ lastXfer' # NoXfer => lastXfer'.on = lastXfer'.latest
       /\ lastRegistered' # lastRegistered => lastXfer' = lastXfer]_vars

\* C2: an operation during which the device reported a transfer error ends
\* with a typed error value, and the task has not panicked.
C2_TransportErrorIsTypedError ==
    last.devErr => (~panicked /\ last.res \in ErrorValues)

\* C3: a detector's calibrate_and_prepare or measure given a buffer shorter
\* than get_buffer_size() returns BufferTooSmall and makes no transfer.
C3_ShortBufferRejected ==
    (last.op \in {"calibrate_and_prepare", "det_measure"} /\ last.len < get_buffer_size)
        => (last.res = "BufferTooSmall" /\ last.xfers = 0)

\* C4: calibrate_and_prepare, measure and process_data never hand the engine a
\* buffer shorter than get_buffer_size().
C4_EngineNeverGetsShortBuffer ==
    (last.op \in {"calibrate_and_prepare", "det_measure", "process_data"} /\ last.engineBuf)
        => last.len >= get_buffer_size

\* C5: measure runs only on a Ready handle, a detector is bound only to a Ready
\* handle, and a Ready handle has a calibration behind it.
C5_MeasureOnlyWhenReady ==
    /\ last.op \in {"measure", "det_measure"} => last.radarAt = "Ready"
    /\ detector = "live" => radar = "Ready"
    /\ radar = "Ready" => latestArt >= 1

C5_Witness == last.op = "det_measure" /\ last.res = "Ok" /\ last.radarAt = "Ready"

\* C6: a calibrate or prepare_sensor that returned an error leaves the handle
\* in the state it was in, so calibrate can be called on it again.
C6_FailureKeepsHandle ==
    (last.op \in {"calibrate", "prepare_sensor"}
        /\ last.res \in {"CalibrationFailed", "PrepareFailed"})
        => (radar = last.radarAt /\ radar \in {"Uninitialized", "Ready"})

\* C7: every prepare_detector call is given the sensor calibration artifact
\* produced most recently.
C7_PrepareUsesLatestArtifact ==
    last.op = "prepare_detector" => last.art = latestArt

\* C8: in the example's loop a result with calibration_needed leads to a
\* recalibration that completes before the next prepare_detector or measure,
\* and a process_data error leads to the next prepare_detector, without a
\* recalibration and without a panic.
C8_LoopRecalibratesAndContinues ==
    pc # "client" =>
        /\ last.op \in {"prepare_detector", "det_measure"} => ~last.recalAt
        /\ (last.op = "process_data" /\ last.res = "Ok" /\ needRecal) => pc = "L129"
        /\ (last.op = "process_data" /\ last.res = "ProcessingFailed")
              => (~panicked /\ pc = "L110")

C8_Witness ==
    /\ pc = "L113"
    /\ last.op = "prepare_detector"
    /\ last.res = "Ok"
    /\ last.phaseAt = "Calibrated"
    /\ calibration < latestArt

\* The order of a detector's operations: process_data after the measure of its
\* cycle, a measurement (a measure that got past the length check) after the
\* prepare of its cycle, prepare_detector after a
\* calibration or a result, and not after a result with calibration_needed.
DetectorOrder ==
    /\ last.op = "process_data" => last.phaseAt = "Measured"
    /\ (last.op = "det_measure" /\ last.engineBuf) => last.phaseAt = "Prepared"
    /\ last.op = "prepare_detector"
          => (last.phaseAt \in {"Calibrated", "Processed"} /\ ~last.recalAt)
    /\ last.op = "calibrate_detector" => last.phaseAt = "Constructed"

\* C9 as claimed: the operations of a detector occur only in the order
\* Constructed, Calibrated, then cycles of Prepared, Measured, Processed.
C9_Order == DetectorOrder

\* C9 as amended: in the example's loop the operations of the detector occur
\* in that order.
C9_OrderInExample == pc # "client" => DetectorOrder

C9_Witness ==
    /\ pc = "L110"
    /\ last.op = "process_data"
    /\ last.phaseAt = "Measured"
    /\ calibration < latestArt

\* C10 as claimed: every measurement of a detector (a measure that got past the
\* length check) comes after a detector prepare that succeeded after the
\* previous one.
C10_PrepareBeforeEveryMeasure ==
    (last.op = "det_measure" /\ last.engineBuf) => last.armedAt

\* C10 as amended: in the example's loop every measurement comes after a
\* prepare_detector that succeeded after the previous one.
C10_PrepareBeforeEveryMeasureInExample ==
    pc # "client" => ((last.op = "det_measure" /\ last.engineBuf) => last.armedAt)

C10_Witness ==
    /\ pc = "L115"
    /\ last.op = "det_measure"
    /\ last.armedAt
    /\ calibration < latestArt

\* C11: after a result with calibration_needed and no recalibration since, the
\* detector's measure and process_data are still accepted: each can return Ok,
\* and a call made then ends with Ok or with the error its buffer, the engine
\* or the device gives it, and with a panic only on a device error.
C11_AcceptedWithoutRecalibration ==
    /\ (pc = "client" /\ ~panicked /\ detector = "live" /\ needRecal)
          => /\ ENABLED (ClientMeasure /\ last'.res = "Ok")
             /\ ENABLED (ClientProcessData /\ last'.res = "Ok")
    /\ (last.op \in {"det_measure", "process_data"} /\ last.recalAt)
          => /\ last.res \in {"Ok", "BufferTooSmall", "SensorError", "ProcessingFailed", "Panic"}
             /\ last.res = "Panic" => last.devErr

C11_Witness ==
    /\ pc = "client"
    /\ last.op = "process_data"
    /\ last.recalAt
    /\ last.res = "Ok"

\* C12: over an engine that succeeds at every call and never reports
\* calibration_needed, calibrate_and_prepare and measure with buffers of the
\* required length and every process_data return Ok, and no result asks for a
\* recalibration.
C12_RoundTripWithoutRecalibration ==
    /\ ~needRecal
    /\ last.op = "process_data" => last.res = "Ok"
    /\ (last.op = "calibrate_and_prepare" /\ last.len >= get_buffer_size) => last.res = "Ok"
    /\ (last.op = "det_measure" /\ last.len >= frameSize) => last.res = "Ok"

C12_Witness ==
    /\ last.op = "process_data"
    /\ last.res = "Ok"
    /\ last.phaseAt = "Measured"
    /\ last.armedAt = FALSE
    /\ latestArt = MaxArtifacts

\* C13: get_buffer_size() changes neither the context, the config nor the
\* handle and returns the size of the context, which nothing but the
\* construction and the drop of a detector changes: two calls on a detector
\* return the same value.
C13_GetBufferSizeIsPureQuery ==
    [][/\ last'.op = "get_buffer_size"
             => /\ last'.len = ctxSize
                /\ UNCHANGED <<detVars, radarVars, histVars, bridgeVars, lastXfer>>
       /\ last'.op \notin {"with_config", "det_new", "drop"} => ctxSize' = ctxSize]_vars

C13_Witness ==
    /\ last.op = "get_buffer_size"
    /\ last.len = ctxSize
    /\ last.phaseAt = "Processed"

\* C14: get_buffer_size() returns the size the detector's config requires as
\* it now is, and a buffer that passed the length check of
\* calibrate_and_prepare is as long as the config handed to the engine's
\* prepare requires.
C14_BufferSizeFollowsConfig ==
    /\ last.op = "get_buffer_size" => last.len = cfgSize
    /\ (last.op = "calibrate_and_prepare" /\ last.engineBuf) => last.len >= cfgSize

\* C15: a setter called on the config of a detector changes nothing in its
\* later operations: get_buffer_size() answers as at the construction, and
\* the config calibrate_and_prepare hands to the engine's prepare requires
\* what it required at the construction.
C15_SetterAfterBindingHasNoEffect ==
    /\ last.op = "get_buffer_size" => last.len = ctxSize
    /\ (last.op = "calibrate_and_prepare" /\ last.engineBuf) => cfgSize = ctxSize

C17_EngineObjectsDestroyedOnce ==
    /\ contexts.destroyed <= contexts.created
    /\ configs.destroyed <= configs.created
    /\ Live(contexts) = IF detector = "live" THEN 1 ELSE 0
    /\ Live(configs) = IF detector = "live" THEN 1 ELSE 0
    /\ last.op \in {"get_buffer_size", "set_range", "calibrate_and_prepare", "det_measure",
                     "process_data", "drop"} => last.phaseAt # "none"
    /\ last.op = "drop"
          => /\ Len(last.calls) = 2
             /\ {last.calls[k].fn : k \in 1..2}
                  = {"acc_detector_presence_destroy", "acc_detector_presence_config_destroy"}

C17_Witness ==
    /\ last.op = "drop"
    /\ last.phaseAt = "Prepared"
    /\ contexts.created = MaxDetectors
    /\ contexts.destroyed = MaxDetectors

\* C18: a registration the engine rejects ends in a panic, not in a return,
\* and no operation starts in a task that has panicked.
C18_RejectedRegistrationIsFatal ==
    [][/\ ~panicked
       /\ (last'.op \in {"register", "Radar_new"} /\ ~last'.calls[1].ok)
             => (last'.res = "Panic" /\ panicked')]_vars

C18_Witness ==
    /\ last.op = "register"
    /\ ~last.calls[1].ok
    /\ panicked
    /\ SPI_INSTANCE # "uninit"

\* C19: the wait of every suspended calibrate_and_prepare and measure ends,
\* and an operation whose edge does not occur returns a calibration or a
\* sensor error to its caller.
C19_AwaitedOperationReturns ==
    /\ (awaiting # NotAwaiting) ~> (awaiting = NotAwaiting)
    /\ (awaiting # NotAwaiting /\ ~awaiting.edge)
          ~> /\ awaiting = NotAwaiting
             /\ ~panicked
             /\ last.res \in {"CalibrationFailed", "SensorError"}

C19_Witness ==
    /\ awaiting # NotAwaiting
    /\ ~awaiting.edge
    /\ awaiting.op = "calibrate_and_prepare"
    /\ last.op = "det_measure"
    /\ last.res = "SensorError"

\* C20: calibrate_and_prepare returns BufferTooSmall exactly below
\* get_buffer_size(), and then calls nothing; otherwise it calls the sensor
\* calibration; after a calibration that failed (or panicked, on a device
\* error) it calls nothing more and ends as the calibration did; PrepareFailed
\* is returned exactly when the calibration succeeded and the engine's prepare
\* answered false, Ok exactly when both succeeded.
C20_CalibrateAndPrepareSteps ==
    last.op = "calibrate_and_prepare" =>
        LET c == last.calls IN
        /\ (last.res = "BufferTooSmall") <=> (last.len < get_buffer_size)
        /\ last.len < get_buffer_size => (c = <<>> /\ last.xfers = 0)
        /\ last.len >= get_buffer_size => (Len(c) >= 1 /\ c[1].fn = "calibrate")
        /\ (Len(c) >= 1 /\ ~c[1].ok)
              => (Len(c) = 1 /\ last.res \in {"CalibrationFailed", "Panic"})
        /\ (last.res = "PrepareFailed") <=> (Len(c) = 2 /\ c[1].ok /\ ~c[2].ok)
        /\ (last.res = "Ok") <=> (Len(c) = 2 /\ c[1].ok /\ c[2].ok)

C20_Witness ==
    /\ last.op = "calibrate_and_prepare"
    /\ last.res = "PrepareFailed"
    /\ last.xfers > 0

\* C21: process_data makes one call of the engine's process and no other, and
\* returns Ok exactly when that call succeeded and ProcessingFailed exactly
\* when it failed.
C21_ProcessDataFollowsEngine ==
    last.op = "process_data" =>
        /\ Len(last.calls) = 1
        /\ last.calls[1].fn = "acc_detector_presence_process"
        /\ (last.res = "Ok") <=> last.calls[1].ok
        /\ (last.res = "ProcessingFailed") <=> ~last.calls[1].ok

C21_Witness ==
    /\ last.op = "process_data"
    /\ last.res = "ProcessingFailed"
    /\ ~last.calls[1].ok
    /\ last.phaseAt = "Measured"

\* C22: a detector's measure is the measure of its handle: for every buffer
\* and all answers of the engine and the device it has the outcome the
\* handle's measure has for them, every step of the detector's measure is an
\* outcome of the handle's measure, and it leaves the handle, the context and
\* the config as they were.
C22_MeasureDelegates ==
    /\ [](pc = "client" /\ ~panicked /\ detector = "live"
            => \A len \in Lens, i \in Inputs :
                  ENABLED (/\ Client(PresenceDetector_measure(len, i.n, i.devOk, i.ok))
                           /\ RadarMeasure("det_measure", len, i.n, i.devOk, i.ok)))
    /\ [][last'.op = "det_measure"
             => /\ \E i \in Inputs :
                      RadarMeasure("det_measure", last'.len, i.n, i.devOk, i.ok)
                /\ UNCHANGED <<bridgeVars, radarVars, detVars>>]_vars

C22_Witness ==
    /\ pc = "client"
    /\ last.op = "det_measure"
    /\ last.res = "Ok"
    /\ last.len < get_buffer_size

\* C23: the engine holds a transfer callback only when an AccHalImpl value
\* exists, an AccHalImpl value exists only when the slot has been written, and
\* every transfer read a written slot.
C23_TransferAfterSlotWritten ==
    /\ hals # {} => SPI_INSTANCE # "uninit"
    /\ engineHal # "none" => (engineHal \in hals /\ SPI_INSTANCE # "uninit")
    /\ lastXfer # NoXfer => lastXfer.latest # "none"

C23_Witness ==
    /\ lastXfer # NoXfer
    /\ lastXfer.on = lastXfer.latest
    /\ last.op = "measure"
    /\ last.xfers > 0

\* C24: only AccHalImpl::new (in Radar::new as well) changes the slot, and a
\* transfer reads the device stored by the latest of them and leaves the slot
\* as it was.
C24_OnlyNewWritesSlot ==
    [][/\ SPI_INSTANCE' # SPI_INSTANCE => last'.op \in {"new", "Radar_new"}
       /\ lastXfer' # lastXfer
             => (SPI_INSTANCE' = SPI_INSTANCE /\ lastXfer'.latest = SPI_INSTANCE)]_vars

C24_Witness ==
    /\ lastXfer # NoXfer
    /\ lastXfer.latest = SPI_INSTANCE
    /\ last.op = "calibrate"
    /\ last.xfers > 0
    /\ Cardinality(borrowed) >= 2

\* C25: the callback that runs a transfer is the one instantiated for the
\* type of the device that was last stored in the slot.
C25_CallbackOfStoredType ==
    lastXfer # NoXfer => lastXfer.cb = SpiType(lastXfer.latest)

\* C26: the drop of a detector has the engine destroy the context first and
\* the config after it, and whenever a context is live so is its config.
C26_ContextDestroyedBeforeConfig ==
    /\ Live(contexts) <= Live(configs)
    /\ last.op = "drop"
          => last.calls = <<EngineCall("acc_detector_presence_destroy", TRUE),
                            EngineCall("acc_detector_presence_config_destroy", TRUE)>>

C26_Witness ==
    /\ last.op = "drop"
    /\ last.phaseAt = "Processed"
    /\ last.calls[1].fn = "acc_detector_presence_destroy"
    /\ Live(contexts) = 0
====
